---- MODULE Spec2Model ----
(***************************************************************************)
(* The authorized passthrough connection lifecycle of ztunnel's inbound    *)
(* plaintext listener (src/src/proxy/inbound_passthrough.rs):              *)
(*   - InboundPassthrough::new   binds the listener,                       *)
(*   - InboundPassthrough::run   accepts sockets until the drain signal,   *)
(*   - InboundPassthrough::proxy_inbound_plaintext  is the per-connection  *)
(*     authorization gate: one spawned task per accepted socket.           *)
(* The ConnectionManager (register / release / track and the policy        *)
(* revocation) is declared outside the listed sources; its operators are   *)
(* modelled from the specification's section 4.1.                          *)
(*                                                                         *)
(* Every await point, and every call that takes the registry lock, is a    *)
(* separate step of a task: tasks run on a multi-threaded runtime, so any  *)
(* other task, the revocation trigger, or the drain signal may act between *)
(* two steps of one task.                                                  *)
(***************************************************************************)
EXTENDS Integers, Sequences, FiniteSets, TLC

\* ---------------------------------------------------------------- bounds
\* Number of sockets the listener accepts in one behaviour.
MaxTasks == 2
\* Number of failed (non-shutdown) accepts in one behaviour.
MaxAcceptErrors == 1

\* ---------------------------------------------------------------- values
Tasks == 1 .. MaxTasks
\* Peer addresses of accepted sockets (rbac::Connection.src).
Srcs == {"s1", "s2"}
\* Original destination addresses (rbac::Connection.dst); "ipL" is the
\* address that cfg.local_ip holds when it is set.
Ips == {"ipL", "ipA"}
\* Addresses the workload directory resolves on the local network.
KnownIps == {"ipA"}
NoIp == "none"
NoChan == 0
ProxyModes == {"Shared", "Dedicated"}

VARIABLES
    proxy_mode,     \* pi.cfg.proxy_mode
    local_ip,       \* pi.cfg.local_ip : an Ip, or NoIp for None
    directory,      \* addresses pi.state.fetch_workload_services resolves
    lstate,         \* listener: Binding, Listening, Stopped, BindFailed
    lerr,           \* error returned by new(): none, Bind, Transparent
    drainLogged,    \* run() logged "inbound passthrough drained"
    drained,        \* the process-wide drain signal has fired
    acceptErrors,   \* accept errors logged by run()
    accepted,       \* number of sockets accepted (= tasks spawned)
    pc,             \* per task: position in proxy_inbound_plaintext
    src,            \* per task: peer address
    dst,            \* per task: original destination
    close,          \* per task: channel of the Watch returned by track
    result,         \* per task: value returned by the gate
    log,            \* per task: sequence of the effects the gate performed
    baseline,       \* per task: entries for its Connection before its register
    registry,       \* connection_manager: set of [conn, chan]
    nextChan,       \* next cancellation channel the registry creates
    signaled        \* cancellation channels whose signal has fired

vars == << proxy_mode, local_ip, directory, lstate, lerr, drainLogged, drained,
           acceptErrors, accepted, pc, src, dst, close, result, log, baseline,
           registry, nextChan, signaled >>

cfgVars == << proxy_mode, local_ip, directory >>
listenerVars == << lstate, lerr, drainLogged, drained, acceptErrors, accepted >>
taskVars == << pc, src, dst, close, result, log, baseline >>
registryVars == << registry, nextChan, signaled >>

\* ------------------------------------------------------------- helpers
Has(s, e) == \E i \in DOMAIN s : s[i] = e
Count(s, e) == Cardinality({i \in DOMAIN s : s[i] = e})
\* Position of the first occurrence of e in s, 0 when absent.
FirstPos(s, e) == IF Has(s, e) THEN CHOOSE i \in DOMAIN s :
                        s[i] = e /\ \A j \in DOMAIN s : s[j] = e => i <= j
                  ELSE 0

\* rbac::Connection built by the gate: src_identity is None and dst_network
\* is the local network for every passthrough connection, so the value is
\* determined by (src, dst).
Conn(t) == << src[t], dst[t] >>

Spawned(t) == pc[t] # "unspawned"
Returned(t) == pc[t] = "done"

\* --------------------------------------------- connection registry (4.1)
Keys(reg) == { e.conn : e \in reg }
EntryOf(reg, c) == CHOOSE e \in reg : e.conn = c

\* Number of entries the registry holds for connection c.
EntriesFor(reg, c) == Cardinality({ e \in reg : e.conn = c })

\* Mutant: register always inserts a fresh entry with its own channel.
Register_AlwaysInsert(reg, c, ch) == reg \cup { [conn |-> c, chan |-> ch] }

\* register(ctx): inserts an entry for ctx; an equal ctx that is already
\* present is reused, no second cancellation channel is created.
Register(reg, c, ch) ==
    IF c \in Keys(reg) THEN reg ELSE reg \cup { [conn |-> c, chan |-> ch] }

\* release(ctx): removes the entry for ctx; a no-op on a missing key.
Release(reg, c) == { e \in reg : e.conn # c }

\* track(ctx): the receiver of the entry when it is still present.
Track(reg, c) == IF c \in Keys(reg) THEN EntryOf(reg, c).chan ELSE NoChan

\* ------------------------------------------------------------------ Init
Init ==
    /\ proxy_mode \in ProxyModes
    /\ local_ip \in {"ipL", NoIp}
    /\ directory = KnownIps
    /\ lstate = "Binding"
    /\ lerr = "none"
    /\ drainLogged = FALSE
    /\ drained = FALSE
    /\ acceptErrors = 0
    /\ accepted = 0
    /\ pc = [t \in Tasks |-> "unspawned"]
    /\ src = [t \in Tasks |-> NoIp]
    /\ dst = [t \in Tasks |-> NoIp]
    /\ close = [t \in Tasks |-> NoChan]
    /\ result = [t \in Tasks |-> "none"]
    /\ log = [t \in Tasks |-> << >>]
    /\ baseline = [t \in Tasks |-> 0]
    /\ registry = {}
    /\ nextChan = 1
    /\ signaled = {}

\* ------------------------------------------------------------- listener
\* new(): tcp_bind and maybe_set_transparent succeed.
BindOk ==
    /\ lstate = "Binding"
    /\ lstate' = "Listening"
    /\ UNCHANGED << lerr, drainLogged, drained, acceptErrors, accepted >>
    /\ UNCHANGED << cfgVars, taskVars, registryVars >>

\* new(): tcp_bind fails with Error::Bind, or maybe_set_transparent fails;
\* no InboundPassthrough is built and run() is never reached.
BindFail(e) ==
    /\ lstate = "Binding"
    /\ lstate' = "BindFailed"
    /\ lerr' = e
    /\ UNCHANGED << drainLogged, drained, acceptErrors, accepted >>
    /\ UNCHANGED << cfgVars, taskVars, registryVars >>

\* Mutant: the accept loop outlives the end of run().
Accept_AfterStop(s, d) ==
    /\ lstate \in {"Listening", "Stopped"}
    /\ accepted < MaxTasks
    /\ accepted' = accepted + 1
    /\ pc' = [pc EXCEPT ![accepted + 1] = "start"]
    /\ src' = [src EXCEPT ![accepted + 1] = s]
    /\ dst' = [dst EXCEPT ![accepted + 1] = d]
    /\ UNCHANGED << lstate, lerr, drainLogged, drained, acceptErrors >>
    /\ UNCHANGED << close, result, log, baseline >>
    /\ UNCHANGED << cfgVars, registryVars >>

\* run(): listener.accept() returned Ok((stream, remote)); the gate is
\* spawned on its own task with the socket's peer and original destination.
Accept(s, d) ==
    /\ lstate = "Listening"
    /\ accepted < MaxTasks
    /\ accepted' = accepted + 1
    /\ pc' = [pc EXCEPT ![accepted + 1] = "start"]
    /\ src' = [src EXCEPT ![accepted + 1] = s]
    /\ dst' = [dst EXCEPT ![accepted + 1] = d]
    /\ UNCHANGED << lstate, lerr, drainLogged, drained, acceptErrors >>
    /\ UNCHANGED << close, result, log, baseline >>
    /\ UNCHANGED << cfgVars, registryVars >>

\* Mutant: every accept error ends the accept loop.
AcceptError_Stops ==
    /\ lstate = "Listening"
    /\ acceptErrors < MaxAcceptErrors
    /\ acceptErrors' = acceptErrors + 1
    /\ lstate' = "Stopped"
    /\ UNCHANGED << lerr, drainLogged, drained, accepted >>
    /\ UNCHANGED << cfgVars, taskVars, registryVars >>

\* run(): accept() returned an error that is not a runtime shutdown: it is
\* logged and the loop continues.
AcceptError ==
    /\ lstate = "Listening"
    /\ acceptErrors < MaxAcceptErrors
    /\ acceptErrors' = acceptErrors + 1
    /\ UNCHANGED << lstate, lerr, drainLogged, drained, accepted >>
    /\ UNCHANGED << cfgVars, taskVars, registryVars >>

\* run(): accept() returned a runtime-shutdown error: the loop returns.
AcceptShutdown ==
    /\ lstate = "Listening"
    /\ lstate' = "Stopped"
    /\ UNCHANGED << lerr, drainLogged, drained, acceptErrors, accepted >>
    /\ UNCHANGED << cfgVars, taskVars, registryVars >>

\* The process-wide drain signal fires (external, one-shot).
DrainSignal ==
    /\ ~drained
    /\ drained' = TRUE
    /\ UNCHANGED << lstate, lerr, drainLogged, acceptErrors, accepted >>
    /\ UNCHANGED << cfgVars, taskVars, registryVars >>

\* Mutant: draining also closes the accepted connections.
ListenerDrained_ClosesConnections ==
    /\ lstate = "Listening"
    /\ drained
    /\ lstate' = "Stopped"
    /\ drainLogged' = TRUE
    /\ signaled' = signaled \cup { e.chan : e \in registry }
    /\ registry' = {}
    /\ UNCHANGED << lerr, drained, acceptErrors, accepted, nextChan >>
    /\ UNCHANGED << cfgVars, taskVars >>

\* run(): the select! takes the drain.signaled() branch and run() returns.
\* Connection tasks were spawned detached and are not awaited.
ListenerDrained ==
    /\ lstate = "Listening"
    /\ drained
    /\ lstate' = "Stopped"
    /\ drainLogged' = TRUE
    /\ UNCHANGED << lerr, drained, acceptErrors, accepted >>
    /\ UNCHANGED << cfgVars, taskVars, registryVars >>

\* ------------------------------------- gate: proxy_inbound_plaintext
Emit(t, evs) == [log EXCEPT ![t] = log[t] \o evs]

\* Err(e) or Ok(()) leaves the function.
Return(t, r) ==
    /\ pc' = [pc EXCEPT ![t] = "done"]
    /\ result' = [result EXCEPT ![t] = r]

\* Mutant: the self-call test ignores the proxy mode.
IsSelfCall_AnyMode(t) == dst[t] = local_ip

\* The recursive-call test on the original destination.
IsSelfCall(t) == proxy_mode = "Shared" /\ dst[t] = local_ip

\* orig_dst_addr_or_default, then the self-call check.
SelfCallCheck(t) ==
    /\ pc[t] = "start"
    /\ IF IsSelfCall(t)
         THEN Return(t, "SelfCall")
         ELSE /\ pc' = [pc EXCEPT ![t] = "lookup"]
              /\ UNCHANGED result
    /\ UNCHANGED << src, dst, close, log, baseline >>
    /\ UNCHANGED << cfgVars, listenerVars, registryVars >>

\* Mutant: the connection is registered before its destination is resolved.
Lookup_RegistersFirst(t) ==
    /\ pc[t] = "lookup"
    /\ registry' = Register(registry, Conn(t), nextChan)
    /\ nextChan' = IF Conn(t) \in Keys(registry) THEN nextChan ELSE nextChan + 1
    /\ IF dst[t] \in directory
         THEN /\ pc' = [pc EXCEPT ![t] = "rbac"]
              /\ UNCHANGED result
         ELSE /\ pc' = [pc EXCEPT ![t] = "done"]
              /\ result' = [result EXCEPT ![t] = "UnknownDestination"]
    /\ log' = [log EXCEPT ![t] = log[t] \o << "register", "lookup" >>]
    /\ UNCHANGED << src, dst, close, baseline, signaled >>
    /\ UNCHANGED << cfgVars, listenerVars >>

\* fetch_workload_services(network, orig.ip()).await
Lookup(t) ==
    /\ pc[t] = "lookup"
    /\ IF dst[t] \in directory
         THEN /\ pc' = [pc EXCEPT ![t] = "register"]
              /\ UNCHANGED result
         ELSE Return(t, "UnknownDestination")
    /\ log' = Emit(t, << "lookup" >>)
    /\ UNCHANGED << src, dst, close, baseline >>
    /\ UNCHANGED << cfgVars, listenerVars, registryVars >>

\* Mutant: register waits until no other task is inside assert_rbac, as
\* it would if the registry lock were held across the policy decision.
GateRegister_WaitsForDecisions(t) ==
    /\ pc[t] = "register"
    /\ \A u \in Tasks \ {t} : pc[u] # "rbac"
    /\ registry' = Register(registry, Conn(t), nextChan)
    /\ nextChan' = IF Conn(t) \in Keys(registry) THEN nextChan ELSE nextChan + 1
    /\ pc' = [pc EXCEPT ![t] = "rbac"]
    /\ log' = Emit(t, << "register" >>)
    /\ baseline' = [baseline EXCEPT ![t] = EntriesFor(registry, Conn(t))]
    /\ UNCHANGED << src, dst, close, result, signaled >>
    /\ UNCHANGED << cfgVars, listenerVars >>

\* connection_manager.register(&rbac_ctx), before assert_rbac.
GateRegister(t) ==
    /\ pc[t] = "register"
    /\ registry' = Register(registry, Conn(t), nextChan)
    /\ nextChan' = IF Conn(t) \in Keys(registry) THEN nextChan ELSE nextChan + 1
    /\ pc' = [pc EXCEPT ![t] = "rbac"]
    /\ log' = Emit(t, << "register" >>)
    /\ baseline' = [baseline EXCEPT ![t] = EntriesFor(registry, Conn(t))]
    /\ UNCHANGED << src, dst, close, result, signaled >>
    /\ UNCHANGED << cfgVars, listenerVars >>

\* Mutant: the gate goes on to track whatever the decision is.
AssertRbac_IgnoresDeny(t, allow) ==
    /\ pc[t] = "rbac"
    /\ pc' = [pc EXCEPT ![t] = "track"]
    /\ log' = Emit(t, << IF allow THEN "allow" ELSE "deny" >>)
    /\ UNCHANGED << src, dst, close, result, baseline >>
    /\ UNCHANGED << cfgVars, listenerVars, registryVars >>

\* pi.state.assert_rbac(&rbac_ctx).await resolves to allow or deny.
AssertRbac(t, allow) ==
    /\ pc[t] = "rbac"
    /\ pc' = [pc EXCEPT ![t] = IF allow THEN "track" ELSE "denied"]
    /\ log' = Emit(t, << IF allow THEN "allow" ELSE "deny" >>)
    /\ UNCHANGED << src, dst, close, result, baseline >>
    /\ UNCHANGED << cfgVars, listenerVars, registryVars >>

\* Mutant: the denial branch releases and falls through to track.
DenyRelease_FallsThrough(t) ==
    /\ pc[t] = "denied"
    /\ registry' = Release(registry, Conn(t))
    /\ log' = Emit(t, << "release" >>)
    /\ pc' = [pc EXCEPT ![t] = "track"]
    /\ UNCHANGED << src, dst, close, result, baseline, nextChan, signaled >>
    /\ UNCHANGED << cfgVars, listenerVars >>

\* The denial branch: release, return Ok(()).
DenyRelease(t) ==
    /\ pc[t] = "denied"
    /\ registry' = Release(registry, Conn(t))
    /\ log' = Emit(t, << "release" >>)
    /\ Return(t, "Ok")
    /\ UNCHANGED << src, dst, close, baseline, nextChan, signaled >>
    /\ UNCHANGED << cfgVars, listenerVars >>

\* connection_manager.track(&rbac_ctx): Some(close) goes on to connect,
\* None returns Ok(()) without a release.
GateTrack(t) ==
    /\ pc[t] = "track"
    /\ LET c == Track(registry, Conn(t)) IN
         IF c # NoChan
           THEN /\ close' = [close EXCEPT ![t] = c]
                /\ pc' = [pc EXCEPT ![t] = "connect"]
                /\ log' = Emit(t, << "track" >>)
                /\ UNCHANGED result
           ELSE /\ Return(t, "Ok")
                /\ log' = Emit(t, << "absent" >>)
                /\ UNCHANGED close
    /\ UNCHANGED << src, dst, baseline >>
    /\ UNCHANGED << cfgVars, listenerVars, registryVars >>

\* Mutant: an upstream connect failure also ends the accept loop.
Connect_FailStopsListener(t, ok) ==
    /\ pc[t] = "connect"
    /\ IF ok
         THEN /\ pc' = [pc EXCEPT ![t] = "connected"]
              /\ UNCHANGED << result, lstate >>
         ELSE /\ Return(t, "Connect")
              /\ lstate' = "Stopped"
    /\ log' = Emit(t, << IF ok THEN "connect" ELSE "connect_failed" >>)
    /\ UNCHANGED << src, dst, close, baseline >>
    /\ UNCHANGED << lerr, drainLogged, drained, acceptErrors, accepted >>
    /\ UNCHANGED << cfgVars, registryVars >>

\* freebind_connect(orig_src, orig, ..).await? : an error leaves the
\* function through `?`, with no call on the connection manager.
Connect(t, ok) ==
    /\ pc[t] = "connect"
    /\ IF ok
         THEN /\ pc' = [pc EXCEPT ![t] = "connected"]
              /\ UNCHANGED result
         ELSE Return(t, "Connect")
    /\ log' = Emit(t, << IF ok THEN "connect" ELSE "connect_failed" >>)
    /\ UNCHANGED << src, dst, close, baseline >>
    /\ UNCHANGED << cfgVars, listenerVars, registryVars >>

\* What the drop of the guard returned by increment_defer emits.
DeferredClose == << "close" >>

\* Source workload lookup, then metrics.increment_defer: the open event is
\* recorded and the close event is deferred to the drop of the guard.
TelemetryOpen(t) ==
    /\ pc[t] = "connected"
    /\ pc' = [pc EXCEPT ![t] = "relay"]
    /\ log' = Emit(t, << "open" >>)
    /\ UNCHANGED << src, dst, close, result, baseline >>
    /\ UNCHANGED << cfgVars, listenerVars, registryVars >>

\* select!: proxy::relay finished first, with or without an I/O error.
RelayDone(t, err) ==
    /\ pc[t] = "relay"
    /\ pc' = [pc EXCEPT ![t] = IF err THEN "relay_err" ELSE "relay_ok"]
    /\ log' = Emit(t, << "relay" >>)
    /\ UNCHANGED << src, dst, close, result, baseline >>
    /\ UNCHANGED << cfgVars, listenerVars, registryVars >>

\* Mutant: err? is applied before the release, so a relay error returns
\* without releasing.
RelayRelease_ErrFirst(t) ==
    /\ pc[t] \in {"relay_ok", "relay_err"}
    /\ IF pc[t] = "relay_err"
         THEN /\ registry' = registry
              /\ log' = Emit(t, DeferredClose)
         ELSE /\ registry' = Release(registry, Conn(t))
              /\ log' = Emit(t, << "release" >> \o DeferredClose)
    /\ Return(t, IF pc[t] = "relay_err" THEN "Io" ELSE "Ok")
    /\ UNCHANGED << src, dst, close, baseline, nextChan, signaled >>
    /\ UNCHANGED << cfgVars, listenerVars >>

\* The relay branch of select!: release, then err? ; the deferred close
\* event fires when the guard is dropped on return.
RelayRelease(t) ==
    /\ pc[t] \in {"relay_ok", "relay_err"}
    /\ registry' = Release(registry, Conn(t))
    /\ log' = Emit(t, << "release" >> \o DeferredClose)
    /\ Return(t, IF pc[t] = "relay_err" THEN "Io" ELSE "Ok")
    /\ UNCHANGED << src, dst, close, baseline, nextChan, signaled >>
    /\ UNCHANGED << cfgVars, listenerVars >>

\* Mutant: the close event is emitted on the relay branch only.
Cancelled_NoClose(t) ==
    /\ pc[t] = "relay"
    /\ close[t] \in signaled
    /\ log' = Emit(t, << "cancelled" >>)
    /\ Return(t, "Ok")
    /\ UNCHANGED << src, dst, close, baseline >>
    /\ UNCHANGED << cfgVars, listenerVars, registryVars >>

\* Mutant: the cancellation branch releases the context as well.
Cancelled_Releases(t) ==
    /\ pc[t] = "relay"
    /\ close[t] \in signaled
    /\ registry' = Release(registry, Conn(t))
    /\ log' = Emit(t, << "cancelled", "release" >> \o DeferredClose)
    /\ Return(t, "Ok")
    /\ UNCHANGED << src, dst, close, baseline, nextChan, signaled >>
    /\ UNCHANGED << cfgVars, listenerVars >>

\* select!: close.signaled() finished first; Ok(()) without a release.
Cancelled(t) ==
    /\ pc[t] = "relay"
    /\ close[t] \in signaled
    /\ log' = Emit(t, << "cancelled" >> \o DeferredClose)
    /\ Return(t, "Ok")
    /\ UNCHANGED << src, dst, close, baseline >>
    /\ UNCHANGED << cfgVars, listenerVars, registryVars >>

\* ------------------------------------------ external revocation (4.1)
\* Tasks between their register and their track of connection c: the ones
\* for which a revocation of c falls inside the authorization window.
Holders(c) == { t \in Tasks : Conn(t) = c /\ pc[t] \in {"rbac", "denied", "track"} }

\* Mutant: a revocation fires every cancellation signal and clears the
\* registry.
Revoke_Broadcast(c) ==
    /\ c \in Keys(registry)
    /\ signaled' = signaled \cup { e.chan : e \in registry }
    /\ registry' = {}
    /\ log' = [t \in Tasks |->
                 IF t \in Holders(c) THEN log[t] \o << "revoked" >> ELSE log[t]]
    /\ UNCHANGED << pc, src, dst, close, result, baseline, nextChan >>
    /\ UNCHANGED << cfgVars, listenerVars >>

\* A policy update revokes the entry of connection c: its cancellation
\* signal is fired and the entry is removed.
Revoke(c) ==
    /\ c \in Keys(registry)
    /\ signaled' = signaled \cup { EntryOf(registry, c).chan }
    /\ registry' = Release(registry, c)
    /\ log' = [t \in Tasks |->
                 IF t \in Holders(c) THEN log[t] \o << "revoked" >> ELSE log[t]]
    /\ UNCHANGED << pc, src, dst, close, result, baseline, nextChan >>
    /\ UNCHANGED << cfgVars, listenerVars >>

\* ------------------------------------------------------- specification
Next ==
    \/ BindOk
    \/ \E e \in {"Bind", "Transparent"} : BindFail(e)
    \/ \E s \in Srcs, d \in Ips : Accept(s, d)
    \/ AcceptError
    \/ AcceptShutdown
    \/ DrainSignal
    \/ ListenerDrained
    \/ \E t \in Tasks : SelfCallCheck(t)
    \/ \E t \in Tasks : Lookup(t)
    \/ \E t \in Tasks : GateRegister(t)
    \/ \E t \in Tasks, allow \in BOOLEAN : AssertRbac(t, allow)
    \/ \E t \in Tasks : DenyRelease(t)
    \/ \E t \in Tasks : GateTrack(t)
    \/ \E t \in Tasks, ok \in BOOLEAN : Connect(t, ok)
    \/ \E t \in Tasks : TelemetryOpen(t)
    \/ \E t \in Tasks, err \in BOOLEAN : RelayDone(t, err)
    \/ \E t \in Tasks : RelayRelease(t)
    \/ \E t \in Tasks : Cancelled(t)
    \/ \E c \in Srcs \X Ips : Revoke(c)

Spec == Init /\ [][Next]_vars

\* The runtime polls the run() task once the drain watch has fired, and
\* drain.signaled() is then ready: the drain branch is eventually taken.
FairSpec == Spec /\ WF_vars(ListenerDrained)

\* The listener states of the specification's section 4.3: Draining is a
\* Listening listener whose drain signal has fired and is not yet observed.
ListenerState == IF lstate = "Listening" /\ drained THEN "Draining" ELSE lstate

TypeOK ==
    /\ proxy_mode \in ProxyModes
    /\ local_ip \in Ips \cup {NoIp}
    /\ directory \subseteq Ips
    /\ lstate \in {"Binding", "Listening", "Stopped", "BindFailed"}
    /\ accepted \in 0 .. MaxTasks
    /\ \A t \in Tasks : pc[t] \in {"unspawned", "start", "lookup", "register",
           "rbac", "denied", "track", "connect", "connected", "relay",
           "relay_ok", "relay_err", "done"}
    /\ \A t \in Tasks : result[t] \in {"none", "Ok", "SelfCall",
           "UnknownDestination", "Connect", "Io"}
    /\ \A e \in registry : e.conn \in Srcs \X Ips /\ e.chan \in 1 .. MaxTasks

\* ---------------------------------------------------------------- claims
RECURSIVE CallsUpTo(_, _)
\* Number of events e in the logs of tasks 1 .. n.
CallsUpTo(n, e) == IF n = 0 THEN 0 ELSE Count(log[n], e) + CallsUpTo(n - 1, e)
TotalCalls(e) == CallsUpTo(MaxTasks, e)
AllReturned == \A t \in Tasks : Spawned(t) => Returned(t)

\* C1 (as claimed): once every spawned connection task has returned, the
\* gates have called release as often as register and the registry holds
\* no entry.
C1_NoLeak ==
    AllReturned =>
        /\ TotalCalls("release") = TotalCalls("register")
        /\ registry = {}

\* C2 (as claimed): a connection whose entry was revoked between its
\* register and its track gets absent from track: it never obtains a
\* receiver, never connects upstream, never relays, and an approved gate
\* returns Ok without relaying.
C2_RevocationRace ==
    \A t \in Tasks :
        Has(log[t], "revoked") =>
            /\ ~Has(log[t], "track")
            /\ ~Has(log[t], "connect")
            /\ ~Has(log[t], "relay")
            /\ pc[t] \notin {"connect", "connected", "relay", "relay_ok", "relay_err"}
            /\ (Returned(t) /\ Has(log[t], "allow") =>
                    Has(log[t], "absent") /\ result[t] = "Ok")

\* C3 (as claimed): while a connection is suspended in assert_rbac its
\* register call has completed and its entry is in the registry, unless a
\* revocation has removed it since.
C3_RegisteredDuringRbac ==
    \A t \in Tasks :
        pc[t] = "rbac" =>
            /\ Has(log[t], "register")
            /\ (Conn(t) \in Keys(registry) \/ Has(log[t], "revoked"))

\* C4 (as claimed): a gate that returns the upstream connect error has
\* called release for its connection before returning.
C4_ConnectFailReleases ==
    \A t \in Tasks :
        Has(log[t], "connect_failed") =>
            /\ result[t] = "Connect"
            /\ Has(log[t], "release")

\* C5 (as claimed): from the moment the drain signal has fired the listener
\* accepts no further connection, and neither the signal nor the
\* listener's reaction to it changes a connection task or the registry.
DrainStep == drained' # drained \/ drainLogged' # drainLogged
C5_DrainStopsAccepting ==
    [][ /\ (drained => accepted' = accepted)
        /\ (DrainStep => UNCHANGED << taskVars, registryVars >>) ]_vars

\* C5 (amended): once the listener has taken the drain branch it is
\* Stopped and accepts no further connection; a socket may still be
\* accepted between the signal firing and the listener taking the branch.
\* Neither the drain signal nor the listener's reaction to it changes the
\* state of a connection task, fires a cancellation signal or removes a
\* registry entry.
C5_DrainKeepsRelays ==
    [][ /\ (lstate = "Stopped" => accepted' = accepted)
        /\ (drainLogged' /\ ~drainLogged => lstate' = "Stopped")
        /\ (DrainStep => UNCHANGED << taskVars, registryVars >>) ]_vars

\* C5 witness: the listener has drained while two connections are relaying.
C5_Witness ==
    /\ drainLogged /\ lstate = "Stopped"
    /\ pc[1] = "relay" /\ pc[2] = "relay"

\* C6: at most one open event per connection; a close event only after
\* the open event; no close before the task returns; and a returned task
\* has emitted exactly as many close events as open events.
C6_CloseOncePerOpen ==
    \A t \in Tasks :
        /\ Count(log[t], "open") <= 1
        /\ Count(log[t], "close") <= Count(log[t], "open")
        /\ (Has(log[t], "close") =>
                FirstPos(log[t], "open") < FirstPos(log[t], "close"))
        /\ (~Returned(t) => ~Has(log[t], "close"))
        /\ (Returned(t) => Count(log[t], "close") = Count(log[t], "open"))

\* C6 witness: a connection that emitted its open event was cancelled
\* administratively and has emitted its single close event.
C6_Witness ==
    \E t \in Tasks :
        /\ Returned(t) /\ Has(log[t], "cancelled")
        /\ Count(log[t], "open") = 1 /\ Count(log[t], "close") = 1

\* C7: a gate returns SelfCall only under shared mode with the destination
\* equal to the local address, and then it has performed nothing (no
\* lookup, register, authorization, connect or telemetry event); under
\* shared mode every gate whose destination is the local address returns
\* SelfCall at its first step.
C7_SelfCall ==
    \A t \in Tasks :
        /\ (result[t] = "SelfCall" =>
                /\ proxy_mode = "Shared" /\ dst[t] = local_ip
                /\ log[t] = << >> /\ close[t] = NoChan)
        /\ (pc[t] \notin {"unspawned", "start"} /\ proxy_mode = "Shared"
                /\ dst[t] = local_ip => result[t] = "SelfCall")

\* C7 witness: a gate has returned SelfCall while another connection holds
\* a registry entry.
C7_Witness ==
    \E t \in Tasks : result[t] = "SelfCall" /\ registry # {}

\* C8 (as claimed): the denial branch calls release, returns Ok, has made
\* no connect, relay or open event, and leaves as many registry entries
\* for the connection as there were before the task's register.
C8_DenyRestoresRegistry ==
    [][ \A t \in Tasks :
          pc[t] = "denied" /\ pc'[t] = "done" =>
            /\ result'[t] = "Ok"
            /\ log'[t] = log[t] \o << "release" >>
            /\ ~Has(log'[t], "connect") /\ ~Has(log'[t], "open")
            /\ ~Has(log'[t], "relay")
            /\ EntriesFor(registry', Conn(t)) = baseline[t] ]_vars

\* C9: a gate returns UnknownDestination exactly when the directory has no
\* entry for its destination (and it is no self call); it has then done
\* the lookup and nothing else, and none of its steps changed the registry.
C9_UnknownDestination ==
    /\ [](\A t \in Tasks :
            /\ (result[t] = "UnknownDestination" =>
                    /\ dst[t] \notin directory
                    /\ log[t] = << "lookup" >> /\ close[t] = NoChan)
            /\ (pc[t] \notin {"unspawned", "start", "lookup"}
                    /\ dst[t] \notin directory /\ result[t] # "SelfCall"
                    => result[t] = "UnknownDestination"))
    /\ [][ \A t \in Tasks :
             pc[t] \in {"start", "lookup"} /\ pc'[t] # pc[t] =>
                UNCHANGED registryVars ]_vars

\* C9 witness: a gate has returned UnknownDestination while another
\* connection holds a registry entry.
C9_Witness ==
    \E t \in Tasks : result[t] = "UnknownDestination" /\ registry # {}

C11_RelayCompletionReleases ==
    /\ [](\A t \in Tasks :
            Has(log[t], "relay") /\ Returned(t) =>
                /\ Count(log[t], "release") = 1
                /\ FirstPos(log[t], "relay") < FirstPos(log[t], "release")
                /\ result[t] \in {"Ok", "Io"}
                /\ ~Has(log[t], "cancelled"))
    /\ [][ \A t \in Tasks :
             pc[t] \in {"relay_ok", "relay_err"} /\ pc'[t] # pc[t] =>
                /\ pc'[t] = "done"
                /\ Has(log'[t], "release")
                /\ Conn(t) \notin Keys(registry')
                /\ result'[t] = IF pc[t] = "relay_err" THEN "Io" ELSE "Ok" ]_vars

\* C11 witness: a gate has returned the relay's I/O error after releasing,
\* although its cancellation signal had fired meanwhile.
C11_Witness ==
    \E t \in Tasks :
        /\ result[t] = "Io" /\ Has(log[t], "release")
        /\ close[t] \in signaled

\* C12 (as claimed): the cancellation branch returns Ok without a release
\* call, and when it returns the registry holds no entry for the gate's
\* Connection.
C12_CancelledEntryAbsent ==
    [][ \A t \in Tasks :
          pc[t] = "relay" /\ pc'[t] = "done" =>
            /\ result'[t] = "Ok"
            /\ ~Has(log'[t], "release") /\ ~Has(log'[t], "relay")
            /\ Conn(t) \notin Keys(registry') ]_vars

\* C12 (amended): the cancellation branch returns Ok without a release
\* call and without touching the registry; the entry the gate tracked (the
\* one whose signal fired) is absent when it returns, removed by the
\* revoker. The registry may by then hold a new entry that another task
\* registered for an equal Connection value.
C12_CancelledTrackedEntryAbsent ==
    [][ \A t \in Tasks :
          pc[t] = "relay" /\ pc'[t] = "done" =>
            /\ result'[t] = "Ok"
            /\ ~Has(log'[t], "release") /\ ~Has(log'[t], "relay")
            /\ close[t] \in signaled
            /\ registry' = registry
            /\ \A e \in registry' : e.chan # close[t] ]_vars

\* C12 witness: a cancelled gate has returned Ok while the registry holds
\* a new entry for an equal Connection value.
C12_Witness ==
    \E t \in Tasks :
        /\ Returned(t) /\ Has(log[t], "cancelled") /\ result[t] = "Ok"
        /\ \E e \in registry : e.conn = Conn(t) /\ e.chan # close[t]

\* C13: a revocation fires the signal of exactly one entry and removes
\* exactly that entry; it moves no task; no task with a different
\* Connection value holds the fired channel, and every other entry stays.
\* A gate that was cancelled has returned Ok.
C13_RevocationAddressed ==
    /\ [][ signaled' # signaled =>
             \E e \in registry :
                /\ signaled' = signaled \cup { e.chan }
                /\ e.chan \notin signaled
                /\ registry' = registry \ { e }
                /\ pc' = pc /\ result' = result /\ close' = close
                /\ \A u \in Tasks :
                     Conn(u) # e.conn => close[u] # e.chan ]_vars
    /\ [](\A t \in Tasks :
            Has(log[t], "cancelled") => Returned(t) /\ result[t] = "Ok")

\* C13 witness: one connection was cancelled and has returned Ok while a
\* connection with a different Connection value is still relaying, its
\* entry present and its signal not fired.
C13_Witness ==
    \E t, u \in Tasks :
        /\ Conn(t) # Conn(u)
        /\ Has(log[t], "cancelled") /\ result[t] = "Ok"
        /\ pc[u] = "relay" /\ close[u] \notin signaled
        /\ \E e \in registry : e.conn = Conn(u) /\ e.chan = close[u]

\* C14: an accept error that is not a runtime shutdown leaves the listener
\* Listening and touches nothing else; a Listening listener that has not
\* used up its accepts can accept, whatever errors were logged before;
\* Listening is left only for Stopped.
C14_AcceptErrorContinues ==
    /\ [][ /\ (acceptErrors' # acceptErrors =>
                 /\ lstate = "Listening" /\ lstate' = "Listening"
                 /\ accepted' = accepted
                 /\ UNCHANGED << taskVars, registryVars >>)
           /\ (lstate = "Listening" /\ lstate' # "Listening" =>
                 lstate' = "Stopped" /\ acceptErrors' = acceptErrors) ]_vars
    /\ [](lstate = "Listening" /\ accepted < MaxTasks =>
            ENABLED (\E s \in Srcs, d \in Ips : Accept(s, d)))

\* C14 witness: an accept error has been logged, the listener is still
\* Listening and a connection task has been spawned.
C14_Witness ==
    /\ acceptErrors >= 1 /\ lstate = "Listening"
    /\ accepted >= 1

\* C15 (as claimed): the listener leaves Listening only for Draining, and
\* enters Stopped only from Draining.
C15_ListenerOrder ==
    [][ /\ (ListenerState = "Listening" /\ ListenerState' # "Listening" =>
              ListenerState' = "Draining")
        /\ (ListenerState' = "Stopped" /\ ListenerState # "Stopped" =>
              ListenerState = "Draining") ]_vars

\* C15 (amended): Binding is left for Listening, or for the failed state
\* with the error of new(), from which nothing follows; Listening is left
\* only for Stopped, either by observing the drain signal or by an accept
\* error that reports the runtime shutting down; Stopped is terminal and
\* accepts nothing; and a Listening listener whose drain signal has fired
\* eventually is Stopped.
C15_ListenerLifecycle ==
    /\ [][ /\ (lstate = "Binding" =>
                 lstate' \in {"Binding", "Listening", "BindFailed"})
           /\ (lstate = "BindFailed" =>
                 lstate' = "BindFailed" /\ accepted' = accepted)
           /\ (lstate = "Listening" /\ lstate' # "Listening" =>
                 lstate' = "Stopped" /\ (drainLogged' => drained))
           /\ (lstate = "Stopped" =>
                 lstate' = "Stopped" /\ accepted' = accepted) ]_vars
    /\ []((lerr # "none") <=> (lstate = "BindFailed"))
    /\ [](lstate \in {"Binding", "BindFailed"} => accepted = 0)
    /\ ((drained /\ lstate = "Listening") ~> (lstate = "Stopped"))

\* C15 witness: the listener was bound, accepted a connection, observed
\* the drain signal and is Stopped.
C15_Witness ==
    /\ lstate = "Stopped" /\ drainLogged
    /\ accepted >= 1

C17_AuthorizedOnlyRelay ==
    \A t \in Tasks :
        /\ ( \/ pc[t] \in {"connect", "connected", "relay", "relay_ok", "relay_err"}
             \/ Has(log[t], "connect") \/ Has(log[t], "connect_failed")
             \/ Has(log[t], "open") \/ Has(log[t], "relay")
             \/ Has(log[t], "cancelled")
           =>
             /\ Has(log[t], "register") /\ Has(log[t], "allow")
             /\ Has(log[t], "track") /\ ~Has(log[t], "deny")
             /\ ~Has(log[t], "absent")
             /\ FirstPos(log[t], "register") < FirstPos(log[t], "allow")
             /\ FirstPos(log[t], "allow") < FirstPos(log[t], "track")
             /\ close[t] # NoChan )
        /\ (Has(log[t], "connect") =>
              FirstPos(log[t], "track") < FirstPos(log[t], "connect"))
        /\ (Has(log[t], "connect_failed") =>
              /\ FirstPos(log[t], "track") < FirstPos(log[t], "connect_failed")
              /\ ~Has(log[t], "open"))
        /\ (Has(log[t], "open") =>
              /\ Has(log[t], "connect")
              /\ FirstPos(log[t], "connect") < FirstPos(log[t], "open"))

\* C17 witness: a task is relaying with its telemetry-open event emitted.
C17_Witness ==
    \E t \in Tasks : pc[t] = "relay" /\ Has(log[t], "open")

\* C18: no double release: one execution of the gate calls release at
\* most once; never on both the denial path and the relay-completion
\* path, and never once the cancellation signal has won the race.
C18_NoDoubleRelease ==
    \A t \in Tasks :
        /\ Count(log[t], "release") <= 1
        /\ (Has(log[t], "deny") =>
              ~Has(log[t], "relay") /\ ~Has(log[t], "track"))
        /\ (Has(log[t], "cancelled") => ~Has(log[t], "release"))
        /\ (Has(log[t], "release") =>
              /\ Returned(t)
              /\ Has(log[t], "deny") \/ Has(log[t], "relay"))

\* C18 witness: one task returned after a denial and another after its
\* relay completed under a revocation of its entry, each with one release.
C18_Witness ==
    \E t \in Tasks, u \in Tasks :
        /\ Returned(t) /\ Has(log[t], "deny") /\ Count(log[t], "release") = 1
        /\ Returned(u) /\ Has(log[u], "relay") /\ Count(log[u], "release") = 1
        /\ close[u] \in signaled

\* C19: equal-Connection interference: as long as no revocation has
\* occurred, a task that assert_rbac allowed never finds its entry absent
\* at track, and the entry for its Connection is in the registry while it
\* is relaying; no other task's release takes it away.
C19_EqualConnIsolation ==
    signaled = {} =>
        \A t \in Tasks :
            /\ (Has(log[t], "allow") => ~Has(log[t], "absent"))
            /\ (pc[t] = "relay" => Conn(t) \in Keys(registry))

\* C20: task isolation: an accept hands the socket to a fresh task and
\* touches no other task; a step in which a gate execution returns an
\* error (SelfCall, UnknownDestination, Connect, Io) leaves the listener
\* as it is, leaves every other task's position, receiver, result and
\* events as they are, removes no registry entry of a different
\* Connection, adds none and fires no cancellation signal; and with a
\* task returned in error a Listening listener can still accept.
C20_TaskIsolation ==
    /\ [][ /\ (accepted' # accepted =>
                 /\ accepted' = accepted + 1
                 /\ pc[accepted'] = "unspawned" /\ pc'[accepted'] = "start"
                 /\ \A u \in Tasks \ {accepted'} :
                      /\ pc'[u] = pc[u] /\ src'[u] = src[u] /\ dst'[u] = dst[u]
                 /\ UNCHANGED << close, result, log, registryVars >>)
           /\ \A t \in Tasks :
                 result[t] = "none" /\
                 result'[t] \in {"SelfCall", "UnknownDestination", "Connect", "Io"} =>
                   /\ UNCHANGED << listenerVars, signaled >>
                   /\ \A u \in Tasks \ {t} :
                        /\ pc'[u] = pc[u] /\ close'[u] = close[u]
                        /\ result'[u] = result[u] /\ log'[u] = log[u]
                   /\ registry' \subseteq registry
                   /\ \A e \in registry : e.conn # Conn(t) => e \in registry' ]_vars
    /\ []( /\ \E t \in Tasks :
                result[t] \in {"SelfCall", "UnknownDestination", "Connect", "Io"}
           /\ lstate = "Listening" /\ accepted < MaxTasks
           => ENABLED (\E s \in Srcs, d \in Ips : Accept(s, d)) )

\* C20 witness: one task returned with a relay I/O error while a task
\* with a different Connection, accepted after it, is relaying with its
\* registry entry present and the listener is still Listening.
C20_Witness ==
    \E t \in Tasks, u \in Tasks :
        /\ result[t] = "Io" /\ t < u
        /\ Conn(u) # Conn(t) /\ pc[u] = "relay"
        /\ Conn(u) \in Keys(registry)
        /\ lstate = "Listening"

====
